---- MODULE Spec2Model ----
(***************************************************************************)
(* The onboarding account picker (AccountPickerWidget) as a state machine. *)
(* The widget's fields, the two shared onboarding cells behind their       *)
(* RwLocks, and the results of the AuthManager calls are the state; one    *)
(* action per key the dispatcher distinguishes, plus the sibling           *)
(* components that share the two cells.                                    *)
(***************************************************************************)
EXTENDS Integers, Sequences, FiniteSets, TLC

\* ------------------------------------------------------------------ bounds
\* Longest account list the directory returns in the model.
MaxAccounts == 2

\* ------------------------------------------------------------- value sets
\* AccountKind (codex_core::auth), as matched in select_current.
Kinds == {"ChatGpt", "ApiKey"}

\* The accounts the modelled directory knows, in the order it lists them:
\* an identifier with its kind and the fields that are only rendered
\* (label, Option email, Option masked_api_key).
DirectoryAccounts ==
    << [id |-> "a1", kind |-> "ChatGpt", label |-> "Work",
        email |-> <<"w@example.com">>, masked_api_key |-> <<>>],
       [id |-> "a2", kind |-> "ApiKey", label |-> "CI key",
        email |-> <<>>, masked_api_key |-> <<"sk-***1234">>],
       [id |-> "a3", kind |-> "ChatGpt", label |-> "Personal",
        email |-> <<>>, masked_api_key |-> <<>>] >>

\* The i-th smallest element of a finite set of numbers.
Nth(S, i) == CHOOSE x \in S : Cardinality({ y \in S : y < x }) = i - 1

\* AccountSummary: the directory's entry with its is_active mark.
AccountSummary(d, active) ==
    [id |-> DirectoryAccounts[d].id, kind |-> DirectoryAccounts[d].kind,
     label |-> DirectoryAccounts[d].label,
     email |-> DirectoryAccounts[d].email,
     masked_api_key |-> DirectoryAccounts[d].masked_api_key,
     is_active |-> active]

\* Every Vec<AccountSummary> list_accounts may return: any at most
\* MaxAccounts of the directory's accounts, in its order, each marked active
\* or not (the directory is trusted, so several may be active).
AccountLists ==
    UNION { { [i \in 1..Cardinality(S) |-> AccountSummary(Nth(S, i), f[Nth(S, i)])] :
                f \in [S -> BOOLEAN] } :
            S \in { T \in SUBSET (1..Len(DirectoryAccounts)) :
                        Cardinality(T) <= MaxAccounts } }

\* SignInState values the picker writes (siblings own further values).
SignInStates == {"PickMode", "ChatGptSuccess", "ApiKeyConfigured"}

\* err.to_string() of a failed list_accounts / select_account.
ListErrors == {"network unreachable"}
SelectErrors == {"account not found"}

\* Option<T>: None is the empty sequence, Some(x) the one-element sequence.
None == <<>>
Some(x) == <<x>>
IsSome(o) == Len(o) = 1

\* AccountPickerSelection.
Existing(kind) == <<"Existing", kind>>
AddNew == <<"AddNew">>

\* Result<T, E> of a directory call.
Ok(v) == [ok |-> TRUE, val |-> v]
Err(m) == [ok |-> FALSE, val |-> m]
ListResults == { Ok(l) : l \in AccountLists } \cup { Err(m) : m \in ListErrors }
SelectResults == { Ok("unit") } \cup { Err(m) : m \in SelectErrors }

\* KeyCode values the dispatcher distinguishes; "Other" is any other key.
Keys == {"Up", "Char_k", "Down", "Char_j", "Enter", "Other"}

\* ------------------------------------------------------------------ state
VARIABLES
    accounts,          \* AccountPickerWidget.accounts
    highlighted,       \* AccountPickerWidget.highlighted
    selection,         \* AccountPickerWidget.selection
    error,             \* AccountPickerWidget.error
    show_login_form,   \* value in the shared Arc<RwLock<bool>>
    sign_in_state,     \* value in the shared Arc<RwLock<SignInState>>
    form_poisoned,     \* show_login_form.write() returns Err
    state_poisoned,    \* sign_in_state.write() returns Err
    lastOp,            \* "new", the key last handled, "sibling" or "render"
    calls,             \* AuthManager calls made by the last operation
    frames,            \* schedule_frame() calls made by the last operation
    committed,         \* history: some Enter has committed a choice
    lastCallError,     \* history: the failure message of the most recent
                       \* directory call, None if it succeeded or the
                       \* synthetic entry was committed since
    lastListed,        \* history: Some(the Vec the most recent successful
                       \* list_accounts returned), None before any
    trace,             \* lock and directory events of the last operation,
                       \* in the order the operation performs them
    painted            \* Some(the lines the last operation gave to the
                       \* Paragraph it rendered), None if it rendered none

vars == <<accounts, highlighted, selection, error, show_login_form,
          sign_in_state, form_poisoned, state_poisoned, lastOp, calls, frames,
          committed, lastCallError, lastListed, trace, painted>>

\* The widget together with what it reaches through its Arcs, as one value.
self ==
    [ accounts |-> accounts, highlighted |-> highlighted,
      selection |-> selection, error |-> error,
      show_login_form |-> show_login_form, sign_in_state |-> sign_in_state,
      form_poisoned |-> form_poisoned, state_poisoned |-> state_poisoned,
      calls |-> calls, frames |-> frames, trace |-> trace ]

\* ---------------------------------------------------------------- helpers
Min(a, b) == IF a <= b THEN a ELSE b

\* usize::saturating_sub.
SaturatingSub(a, b) == IF a >= b THEN a - b ELSE 0

\* usize::saturating_add; a Vec's length is far below usize::MAX, so the
\* sum never saturates.
SaturatingAdd(a, b) == a + b

\* position that finds the last active account instead of the first.
PositionActive_Last(accts) ==
    LET hits == { i \in 1..Len(accts) : accts[i].is_active }
    IN  IF hits = {} THEN <<>>
        ELSE <<(CHOOSE i \in hits : \A j \in hits : i >= j) - 1>>

\* accounts.iter().position(|acc| acc.is_active): Some(0-based index) of the
\* first active account, or None.
PositionActive(accts) ==
    LET hits == { i \in 1..Len(accts) : accts[i].is_active }
    IN  IF hits = {} THEN None
        ELSE Some((CHOOSE i \in hits : \A j \in hits : i <= j) - 1)

UnwrapOr(o, d) == IF IsSome(o) THEN o[1] ELSE d

\* One more event of the running operation: "acquire" (write() has taken
\* the lock and returned, Ok or Err), "assign" (the store through the
\* guard), "release" (the guard is dropped), "call" (an AuthManager call).
Log(w, ev, on) == [w EXCEPT !.trace = Append(@, [ev |-> ev, on |-> on])]

\* A write that keeps its guard beyond the if-let block.
WriteShowLoginForm_HoldsGuard(w, v) ==
    LET a == Log(w, "acquire", "form")
    IN  IF a.form_poisoned THEN a
        ELSE Log([a EXCEPT !.show_login_form = v], "assign", "form")

\* `if let Ok(mut guard) = show_login_form.write() { *guard = v; }`: write()
\* takes the lock; on a poisoned lock it returns Err, the block is skipped
\* and the guard inside the Err is dropped with it; otherwise the store is
\* made and the guard dropped at the end of the block.
WriteShowLoginForm(w, v) ==
    LET a == Log(w, "acquire", "form")
    IN  IF a.form_poisoned THEN Log(a, "release", "form")
        ELSE Log(Log([a EXCEPT !.show_login_form = v], "assign", "form"),
                 "release", "form")

\* A write that recovers the guard of a poisoned lock and stores through it.
WriteSignInState_RecoversPoison(w, v) ==
    Log(Log(Log([w EXCEPT !.sign_in_state = v], "acquire", "state"),
            "assign", "state"), "release", "state")

\* The same for sign_in_state.
WriteSignInState(w, v) ==
    LET a == Log(w, "acquire", "state")
    IN  IF a.state_poisoned THEN Log(a, "release", "state")
        ELSE Log(Log([a EXCEPT !.sign_in_state = v], "assign", "state"),
                 "release", "state")

\* An AuthManager call and its result, as the operation's logs record it.
Called(w, fn, arg, ok) ==
    Log([w EXCEPT !.calls = Append(@, [fn |-> fn, arg |-> arg, ok |-> ok])],
        "call", fn)

\* request_frame.schedule_frame().
ScheduleFrame(w) == [w EXCEPT !.frames = @ + 1]

\* ------------------------------------------------------------ the widget
\* new without the forced login form of an empty list.
New_NoForce(form, state, formPoisoned, statePoisoned, listRes) ==
    [ accounts |-> IF listRes.ok THEN listRes.val ELSE <<>>,
      highlighted |->
          UnwrapOr(PositionActive(IF listRes.ok THEN listRes.val ELSE <<>>), 0),
      selection |-> None,
      error |-> IF listRes.ok THEN None ELSE Some(listRes.val),
      show_login_form |-> form, sign_in_state |-> state,
      form_poisoned |-> formPoisoned, state_poisoned |-> statePoisoned,
      calls |-> << [fn |-> "list_accounts", arg |-> "-", ok |-> listRes.ok] >>,
      frames |-> 0,
      trace |-> << [ev |-> "call", on |-> "list_accounts"] >> ]

\* new that records AddNew as chosen when there is nothing to pick from.
New_SelectsAddNew(form, state, formPoisoned, statePoisoned, listRes) ==
    LET w == New_NoForce(form, state, formPoisoned, statePoisoned, listRes)
    IN  IF w.accounts = <<>>
        THEN WriteShowLoginForm([w EXCEPT !.selection = Some(AddNew)], TRUE)
        ELSE w

\* AccountPickerWidget::new, given the cells as they are and the result of
\* list_accounts.
New(form, state, formPoisoned, statePoisoned, listRes) ==
    LET accts == IF listRes.ok THEN listRes.val ELSE <<>>
        err == IF listRes.ok THEN None ELSE Some(listRes.val)
        w0 == [ accounts |-> accts,
                highlighted |-> UnwrapOr(PositionActive(accts), 0),
                selection |-> None,
                error |-> err,
                show_login_form |-> form, sign_in_state |-> state,
                form_poisoned |-> formPoisoned,
                state_poisoned |-> statePoisoned,
                calls |-> << [fn |-> "list_accounts", arg |-> "-",
                              ok |-> listRes.ok] >>,
                frames |-> 0,
                trace |-> << [ev |-> "call", on |-> "list_accounts"] >> ]
    IN  IF accts = <<>> THEN WriteShowLoginForm(w0, TRUE) ELSE w0

TotalEntries(w) == SaturatingAdd(Len(w.accounts), 1)

\* current_highlight clamped to the entry count instead of the last index.
CurrentHighlight_ClampToTotal(w) == Min(w.highlighted, TotalEntries(w))

CurrentHighlight(w) ==
    Min(w.highlighted, SaturatingSub(TotalEntries(w), 1))

HighlightNext(w) ==
    LET total == TotalEntries(w)
    IN  IF total = 0 THEN w
        ELSE [w EXCEPT !.highlighted = (CurrentHighlight(w) + 1) % total]

\* highlight_prev that stops at the first entry instead of wrapping.
HighlightPrev_NoWrap(w) ==
    [w EXCEPT !.highlighted = SaturatingSub(CurrentHighlight(w), 1)]

HighlightPrev(w) ==
    LET total == TotalEntries(w)
        current == CurrentHighlight(w)
    IN  IF total = 0 THEN w
        ELSE [w EXCEPT !.highlighted =
                 IF current = 0 THEN SaturatingSub(total, 1) ELSE current - 1]

\* The kind mapping with its arms exchanged.
KindSignInState_Swapped(kind) ==
    IF kind = "ChatGpt" THEN "ApiKeyConfigured" ELSE "ChatGptSuccess"

\* SignInState written for an activated account of the given kind.
KindSignInState(kind) ==
    IF kind = "ChatGpt" THEN "ChatGptSuccess" ELSE "ApiKeyConfigured"

\* A refresh whose Err arm empties the list, as the constructor's does.
Refresh_EmptiesOnError(w, listRes) ==
    LET w1 == Called(w, "list_accounts", "-", listRes.ok)
    IN  IF listRes.ok
        THEN LET w2 == [w1 EXCEPT !.accounts = listRes.val]
             IN  [w2 EXCEPT !.highlighted =
                     UnwrapOr(PositionActive(w2.accounts), CurrentHighlight(w2))]
        ELSE [w1 EXCEPT !.accounts = <<>>, !.error = Some(listRes.val)]

\* A refresh that takes the fallback index against the old list.
Refresh_ClampsBeforeReplace(w, listRes) ==
    LET w1 == Called(w, "list_accounts", "-", listRes.ok)
    IN  IF listRes.ok
        THEN [w1 EXCEPT !.accounts = listRes.val,
                        !.highlighted =
                            UnwrapOr(PositionActive(listRes.val),
                                     CurrentHighlight(w1))]
        ELSE [w1 EXCEPT !.error = Some(listRes.val)]

\* A refresh that keeps the stored index when no account is active.
Refresh_KeepsStoredIndex(w, listRes) ==
    LET w1 == Called(w, "list_accounts", "-", listRes.ok)
    IN  IF listRes.ok
        THEN [w1 EXCEPT !.accounts = listRes.val,
                        !.highlighted =
                            UnwrapOr(PositionActive(listRes.val), w1.highlighted)]
        ELSE [w1 EXCEPT !.error = Some(listRes.val)]

\* The Ok(updated) / Err(err) arms of the refresh after an activation.
Refresh(w, listRes) ==
    LET w1 == Called(w, "list_accounts", "-", listRes.ok)
    IN  IF listRes.ok
        THEN LET w2 == [w1 EXCEPT !.accounts = listRes.val]
             IN  [w2 EXCEPT !.highlighted =
                     UnwrapOr(PositionActive(w2.accounts), CurrentHighlight(w2))]
        ELSE [w1 EXCEPT !.error = Some(listRes.val)]

\* An Ok(()) arm that leaves an earlier error in place.
ActivateOk_KeepsError(w, account, listRes) ==
    LET w1 == [w EXCEPT !.selection = Some(Existing(account.kind))]
        w2 == WriteShowLoginForm(w1, FALSE)
        w3 == WriteSignInState(w2, KindSignInState(account.kind))
    IN  Refresh(w3, listRes)

\* The Ok(()) arm of select_account: the commit of an existing account,
\* then the refresh.
ActivateOk(w, account, listRes) ==
    LET w1 == [w EXCEPT !.error = None,
                        !.selection = Some(Existing(account.kind))]
        w2 == WriteShowLoginForm(w1, FALSE)
        w3 == WriteSignInState(w2, KindSignInState(account.kind))
    IN  Refresh(w3, listRes)

\* An Err arm that falls back to the login form, as the constructor does.
ActivateErr_OpensForm(w, msg) ==
    WriteShowLoginForm([w EXCEPT !.error = Some(msg)], TRUE)

\* An Err arm that drops the earlier selection.
ActivateErr_ResetsSelection(w, msg) ==
    [w EXCEPT !.error = Some(msg), !.selection = None]

\* The Err(err) arm of select_account.
ActivateErr(w, msg) == [w EXCEPT !.error = Some(msg)]

\* The synthetic-entry branch without the error reset.
CommitAddNew_KeepsError(w) ==
    LET w1 == [w EXCEPT !.selection = Some(AddNew)]
        w2 == WriteShowLoginForm(w1, TRUE)
        w3 == WriteSignInState(w2, "PickMode")
    IN  [w3 EXCEPT !.highlighted = Len(w3.accounts)]

\* An "add new" branch that opens the login form but leaves sign_in_state.
CommitAddNew_SkipsSignInState(w) ==
    LET w1 == [w EXCEPT !.error = None, !.selection = Some(AddNew)]
        w2 == WriteShowLoginForm(w1, TRUE)
    IN  [w2 EXCEPT !.highlighted = Len(w2.accounts)]

\* The else branch of select_current: the synthetic "add new" entry.
CommitAddNew(w) ==
    LET w1 == [w EXCEPT !.error = None, !.selection = Some(AddNew)]
        w2 == WriteShowLoginForm(w1, TRUE)
        w3 == WriteSignInState(w2, "PickMode")
    IN  [w3 EXCEPT !.highlighted = Len(w3.accounts)]

\* select_current that always activates the first account of the list.
SelectCurrent_ActivatesFirst(w, selectRes, listRes) ==
    IF CurrentHighlight(w) < Len(w.accounts)
    THEN LET account == w.accounts[1]
             w1 == Called(w, "select_account", account.id, selectRes.ok)
         IN  IF selectRes.ok
             THEN ScheduleFrame(ActivateOk(w1, account, listRes))
             ELSE ScheduleFrame(ActivateErr(w1, selectRes.val))
    ELSE ScheduleFrame(CommitAddNew(w))

\* select_current, given the results the directory would give to
\* select_account and to the list_accounts that follows a success.
SelectCurrent(w, selectRes, listRes) ==
    IF CurrentHighlight(w) < Len(w.accounts)
    THEN LET account == w.accounts[CurrentHighlight(w) + 1]
             w1 == Called(w, "select_account", account.id, selectRes.ok)
         IN  IF selectRes.ok
             THEN ScheduleFrame(ActivateOk(w1, account, listRes))
             ELSE ScheduleFrame(ActivateErr(w1, selectRes.val))
    ELSE ScheduleFrame(CommitAddNew(w))

\* The dispatcher without its own redraw request.
HandleKeyEvent_NoFrame(w, key, selectRes, listRes) ==
    LET w0 == [w EXCEPT !.calls = <<>>, !.frames = 0, !.trace = <<>>]
    IN  CASE key \in {"Up", "Char_k"} -> HighlightPrev(w0)
          [] key \in {"Down", "Char_j"} -> HighlightNext(w0)
          [] key = "Enter" -> SelectCurrent(w0, selectRes, listRes)
          [] OTHER -> w0

\* A dispatcher whose 'j' arm goes to highlight_prev.
HandleKeyEvent_JIsPrev(w, key, selectRes, listRes) ==
    LET w0 == [w EXCEPT !.calls = <<>>, !.frames = 0, !.trace = <<>>]
        w1 == CASE key \in {"Up", "Char_k", "Char_j"} -> HighlightPrev(w0)
                [] key = "Down" -> HighlightNext(w0)
                [] key = "Enter" -> SelectCurrent(w0, selectRes, listRes)
                [] OTHER -> w0
    IN  ScheduleFrame(w1)

\* KeyboardHandler::handle_key_event.
HandleKeyEvent(w, key, selectRes, listRes) ==
    LET w0 == [w EXCEPT !.calls = <<>>, !.frames = 0, !.trace = <<>>]
        w1 == CASE key \in {"Up", "Char_k"} -> HighlightPrev(w0)
                [] key \in {"Down", "Char_j"} -> HighlightNext(w0)
                [] key = "Enter" -> SelectCurrent(w0, selectRes, listRes)
                [] OTHER -> w0
    IN  ScheduleFrame(w1)

\* A styled span of a Line.
Span(text, style) == [text |-> text, style |-> style]

\* Option::unwrap_or_else on the model's Option.
UnwrapOrElse(o, default) == IF IsSome(o) THEN o[1] ELSE default

\* render_entry: the Line of entry `index`, as its spans.
RenderEntry(w, index) ==
    IF index < Len(w.accounts)
    THEN LET account == w.accounts[index + 1]
             indicator == IF CurrentHighlight(w) = index THEN ">" ELSE " "
             label == IF account.is_active
                      THEN account.label \o " (current)"
                      ELSE account.label
             detail == IF account.kind = "ChatGpt"
                       THEN UnwrapOrElse(account.email, "ChatGPT account")
                       ELSE UnwrapOrElse(account.masked_api_key, "API key")
         IN  IF CurrentHighlight(w) = index
             THEN << Span(indicator \o " ", "cyan"), Span(label, "cyan_bold"),
                     Span(" ", "plain"), Span(detail, "dim") >>
             ELSE << Span(indicator \o " ", "plain"), Span(label, "plain"),
                     Span(" ", "plain"), Span(detail, "dim") >>
    ELSE LET indicator == IF CurrentHighlight(w) = index THEN ">" ELSE " "
             text == "Add another account"
         IN  IF CurrentHighlight(w) = index
             THEN << Span(indicator \o " ", "cyan"), Span(text, "cyan") >>
             ELSE << Span(indicator \o " ", "plain"), Span(text, "plain") >>

\* lines without the blank line before the error text.
Lines_NoSeparator(w) ==
    << << Span("Choose which account to use for this session:", "plain") >>,
       << Span("", "plain") >> >>
    \o [i \in 1..TotalEntries(w) |-> RenderEntry(w, i - 1)]
    \o (IF IsSome(w.error) THEN << << Span(w.error[1], "red") >> >> ELSE <<>>)

\* lines: the instruction, a blank line, the entries 0..total, and after a
\* blank line the error when there is one.
Lines(w) ==
    << << Span("Choose which account to use for this session:", "plain") >>,
       << Span("", "plain") >> >>
    \o [i \in 1..TotalEntries(w) |-> RenderEntry(w, i - 1)]
    \o (IF IsSome(w.error)
        THEN << << Span("", "plain") >>, << Span(w.error[1], "red") >> >>
        ELSE <<>>)

\* StepStateProvider::get_step_state.
GetStepState(w) == IF IsSome(w.selection) THEN "Complete" ELSE "InProgress"

\* ---------------------------------------------------------------- actions
\* The variables take the fields of a widget value.
Becomes(w) ==
    /\ accounts' = w.accounts
    /\ highlighted' = w.highlighted
    /\ selection' = w.selection
    /\ error' = w.error
    /\ show_login_form' = w.show_login_form
    /\ sign_in_state' = w.sign_in_state
    /\ form_poisoned' = w.form_poisoned
    /\ state_poisoned' = w.state_poisoned
    /\ calls' = w.calls
    /\ frames' = w.frames
    /\ trace' = w.trace
    /\ painted' = None

Init ==
    \E form \in BOOLEAN, state \in SignInStates,
       fp \in BOOLEAN, sp \in BOOLEAN, listRes \in ListResults :
        LET w == New(form, state, fp, sp, listRes)
        IN  /\ accounts = w.accounts
            /\ highlighted = w.highlighted
            /\ selection = w.selection
            /\ error = w.error
            /\ show_login_form = w.show_login_form
            /\ sign_in_state = w.sign_in_state
            /\ form_poisoned = w.form_poisoned
            /\ state_poisoned = w.state_poisoned
            /\ calls = w.calls
            /\ frames = w.frames
            /\ trace = w.trace
            /\ painted = None
            /\ lastOp = "new"
            /\ committed = FALSE
            /\ lastCallError = (IF listRes.ok THEN None ELSE Some(listRes.val))
            /\ lastListed = (IF listRes.ok THEN Some(listRes.val) ELSE None)

\* A navigation or ignored key: no directory call is made.
KeyPlain(key) ==
    /\ key \in Keys \ {"Enter"}
    /\ Becomes(HandleKeyEvent(self, key, Ok("unit"), Ok(<<>>)))
    /\ lastOp' = key
    /\ UNCHANGED <<committed, lastCallError, lastListed>>

\* Enter on the synthetic entry: the directory is not called.
KeyEnterAddNew ==
    /\ ~(CurrentHighlight(self) < Len(accounts))
    /\ Becomes(HandleKeyEvent(self, "Enter", Ok("unit"), Ok(<<>>)))
    /\ lastOp' = "Enter"
    /\ committed' = TRUE
    /\ lastCallError' = None
    /\ UNCHANGED lastListed

\* Enter on an account whose select_account fails: no refresh follows.
KeyEnterActivateErr ==
    /\ CurrentHighlight(self) < Len(accounts)
    /\ \E m \in SelectErrors :
           /\ Becomes(HandleKeyEvent(self, "Enter", Err(m), Ok(<<>>)))
           /\ lastCallError' = Some(m)
    /\ lastOp' = "Enter"
    /\ UNCHANGED <<committed, lastListed>>

\* Enter on an account whose select_account succeeds, with the result of
\* the list_accounts that follows.
KeyEnterActivateOk ==
    /\ CurrentHighlight(self) < Len(accounts)
    /\ \E listRes \in ListResults :
           /\ Becomes(HandleKeyEvent(self, "Enter", Ok("unit"), listRes))
           /\ lastCallError' = (IF listRes.ok THEN None ELSE Some(listRes.val))
           /\ lastListed' = (IF listRes.ok THEN Some(listRes.val) ELSE lastListed)
    /\ lastOp' = "Enter"
    /\ committed' = TRUE

\* A sibling onboarding step writes one of the shared cells.
SiblingWriteForm ==
    /\ ~form_poisoned
    /\ \E v \in BOOLEAN : show_login_form' = v
    /\ lastOp' = "sibling" /\ calls' = <<>> /\ frames' = 0 /\ trace' = <<>>
    /\ painted' = None
    /\ UNCHANGED <<accounts, highlighted, selection, error, sign_in_state,
                   form_poisoned, state_poisoned, committed, lastCallError,
                   lastListed>>

SiblingWriteState ==
    /\ ~state_poisoned
    /\ \E v \in SignInStates : sign_in_state' = v
    /\ lastOp' = "sibling" /\ calls' = <<>> /\ frames' = 0 /\ trace' = <<>>
    /\ painted' = None
    /\ UNCHANGED <<accounts, highlighted, selection, error, show_login_form,
                   form_poisoned, state_poisoned, committed, lastCallError,
                   lastListed>>

\* A holder of a write guard panics: the lock is poisoned from then on.
PoisonForm ==
    /\ ~form_poisoned
    /\ form_poisoned' = TRUE
    /\ lastOp' = "sibling" /\ calls' = <<>> /\ frames' = 0 /\ trace' = <<>>
    /\ painted' = None
    /\ UNCHANGED <<accounts, highlighted, selection, error, show_login_form,
                   sign_in_state, state_poisoned, committed, lastCallError,
                   lastListed>>

PoisonState ==
    /\ ~state_poisoned
    /\ state_poisoned' = TRUE
    /\ lastOp' = "sibling" /\ calls' = <<>> /\ frames' = 0 /\ trace' = <<>>
    /\ painted' = None
    /\ UNCHANGED <<accounts, highlighted, selection, error, show_login_form,
                   sign_in_state, form_poisoned, committed, lastCallError,
                   lastListed>>

\* WidgetRef::render_ref: the block is drawn; with an empty inner area the
\* method returns, otherwise the lines go to the Paragraph. No field of the
\* widget, no cell and no directory call is involved.
RenderRef(innerEmpty) ==
    /\ painted' = (IF innerEmpty THEN None ELSE Some(Lines(self)))
    /\ lastOp' = "render" /\ calls' = <<>> /\ frames' = 0 /\ trace' = <<>>
    /\ UNCHANGED <<accounts, highlighted, selection, error, show_login_form,
                   sign_in_state, form_poisoned, state_poisoned, committed,
                   lastCallError, lastListed>>

Next ==
    \/ \E key \in Keys \ {"Enter"} : KeyPlain(key)
    \/ KeyEnterAddNew
    \/ KeyEnterActivateErr
    \/ KeyEnterActivateOk
    \/ SiblingWriteForm
    \/ SiblingWriteState
    \/ PoisonForm
    \/ PoisonState
    \/ \E innerEmpty \in BOOLEAN : RenderRef(innerEmpty)

Spec == Init /\ [][Next]_vars

\* The widget on its own: both locks sound at construction, and only the
\* widget's own operations (keys and rendering) take steps.
InitIsolated == Init /\ ~form_poisoned /\ ~state_poisoned

NextIsolated ==
    \/ \E key \in Keys \ {"Enter"} : KeyPlain(key)
    \/ KeyEnterAddNew
    \/ KeyEnterActivateErr
    \/ KeyEnterActivateOk
    \/ \E innerEmpty \in BOOLEAN : RenderRef(innerEmpty)

SpecIsolated == InitIsolated /\ [][NextIsolated]_vars

\* ----------------------------------------------------------------- claims
\* The effective highlight and the account count of the current state.
Eff == CurrentHighlight(self)
NumAccounts == Len(accounts)

\* The step just taken was Enter on an account row (of the state before).
EnterOnAccount == lastOp' = "Enter" /\ Eff < NumAccounts
\* ... and select_account returned Ok / Err.
Activated == EnterOnAccount /\ calls'[1].fn = "select_account" /\ calls'[1].ok
ActivationFailed ==
    EnterOnAccount /\ calls'[1].fn = "select_account" /\ ~calls'[1].ok
\* The step just taken was Enter on the synthetic entry.
EnterOnAddNew == lastOp' = "Enter" /\ Eff = NumAccounts

\* The kind-specific sign-in state the specification names.
ExpectedSignIn(kind) ==
    CASE kind = "ChatGpt" -> "ChatGptSuccess"
      [] kind = "ApiKey" -> "ApiKeyConfigured"

\* What a cell holds after the widget's write of v: v, or the old value
\* when the cell's lock could not be acquired.
Written(poisoned, old, v) == IF poisoned THEN old ELSE v

\* C1 as stated: Enter on an account row whose activation succeeds makes
\* selection Existing(kind of that account), the show-login-form cell false,
\* the sign-in state the kind's mapping, and the step Complete.
C1_AsStated ==
    [][ Activated =>
          /\ selection' = Some(Existing(accounts[Eff + 1].kind))
          /\ show_login_form' = FALSE
          /\ sign_in_state' = ExpectedSignIn(accounts[Eff + 1].kind)
          /\ GetStepState(self') = "Complete" ]_vars

\* C1 amended: as stated, except that each cell takes its new value only if
\* its write lock can be acquired and otherwise keeps the value it had.
C1_ActivationCommits ==
    [][ Activated =>
          /\ selection' = Some(Existing(accounts[Eff + 1].kind))
          /\ show_login_form' = Written(form_poisoned, show_login_form, FALSE)
          /\ sign_in_state' = Written(state_poisoned, sign_in_state,
                                      ExpectedSignIn(accounts[Eff + 1].kind))
          /\ GetStepState(self') = "Complete" ]_vars

\* An ApiKey account was activated over an earlier AddNew-style cell state:
\* the cells now hold the ApiKey mapping.
C1_Witness ==
    /\ lastOp = "Enter" /\ Len(calls) = 2 /\ calls[1].ok /\ calls[2].ok
    /\ calls[1].arg = "a2"
    /\ selection = Some(Existing("ApiKey"))
    /\ show_login_form = FALSE /\ sign_in_state = "ApiKeyConfigured"
    /\ ~form_poisoned /\ ~state_poisoned

\* C2: Enter on an account row whose activation fails sets error to the
\* failure message, keeps selection, both cells and the step state, and
\* makes no list_accounts call.
C2_ActivationFailureKeepsState ==
    [][ ActivationFailed =>
          /\ error' \in { Some(m) : m \in SelectErrors }
          /\ selection' = selection
          /\ show_login_form' = show_login_form
          /\ sign_in_state' = sign_in_state
          /\ GetStepState(self') = GetStepState(self)
          /\ \A i \in 1..Len(calls') : calls'[i].fn # "list_accounts" ]_vars

\* A failed activation after an earlier AddNew commit: the error is shown,
\* the earlier selection and cells stand.
C2_Witness ==
    /\ lastOp = "Enter" /\ Len(calls) = 1 /\ ~calls[1].ok
    /\ error = Some("account not found")
    /\ selection = Some(AddNew) /\ show_login_form = TRUE

\* C3 as stated: Enter on the synthetic entry always sets selection = AddNew,
\* show-login-form = true, sign-in state = PickMode, clears error, calls the
\* directory not at all and leaves accounts and the effective highlight.
C3_AsStated ==
    [][ EnterOnAddNew =>
          /\ selection' = Some(AddNew)
          /\ show_login_form' = TRUE
          /\ sign_in_state' = "PickMode"
          /\ error' = None
          /\ calls' = <<>>
          /\ accounts' = accounts
          /\ CurrentHighlight(self') = Eff ]_vars

\* C3 amended: as stated, except that each cell takes its new value only if
\* its write lock can be acquired and otherwise keeps the value it had.
C3_AddNewCommits ==
    [][ EnterOnAddNew =>
          /\ selection' = Some(AddNew)
          /\ show_login_form' = Written(form_poisoned, show_login_form, TRUE)
          /\ sign_in_state' = Written(state_poisoned, sign_in_state, "PickMode")
          /\ error' = None
          /\ calls' = <<>>
          /\ accounts' = accounts
          /\ CurrentHighlight(self') = Eff ]_vars

\* Enter on the synthetic entry of an empty list.
C3_Witness ==
    /\ lastOp = "Enter" /\ calls = <<>> /\ accounts = <<>>
    /\ selection = Some(AddNew) /\ error = None
    /\ show_login_form = TRUE /\ sign_in_state = "PickMode"

\* The refresh after a successful activation failed.
RefreshFailed ==
    Activated /\ Len(calls') = 2 /\ calls'[2].fn = "list_accounts" /\ ~calls'[2].ok

\* C4 as stated: when the refresh after a successful activation fails, error
\* is the refresh failure, selection = Existing(kind), show-login-form = false
\* and the kind's sign-in state stay committed, the step is Complete, and
\* accounts and highlighted are as before the key.
C4_AsStated ==
    [][ RefreshFailed =>
          /\ error' \in { Some(m) : m \in ListErrors }
          /\ selection' = Some(Existing(accounts[Eff + 1].kind))
          /\ show_login_form' = FALSE
          /\ sign_in_state' = ExpectedSignIn(accounts[Eff + 1].kind)
          /\ GetStepState(self') = "Complete"
          /\ accounts' = accounts
          /\ highlighted' = highlighted ]_vars

\* C4 amended: as stated, except that each cell holds the committed value
\* only if its write lock could be acquired and otherwise its old value.
C4_PartialFailure ==
    [][ RefreshFailed =>
          /\ error' \in { Some(m) : m \in ListErrors }
          /\ selection' = Some(Existing(accounts[Eff + 1].kind))
          /\ show_login_form' = Written(form_poisoned, show_login_form, FALSE)
          /\ sign_in_state' = Written(state_poisoned, sign_in_state,
                                      ExpectedSignIn(accounts[Eff + 1].kind))
          /\ GetStepState(self') = "Complete"
          /\ accounts' = accounts
          /\ highlighted' = highlighted ]_vars

\* A switched account with a failed refresh: the error is shown over the
\* old two-account list.
C4_Witness ==
    /\ lastOp = "Enter" /\ Len(calls) = 2 /\ calls[1].ok /\ ~calls[2].ok
    /\ error = Some("network unreachable")
    /\ selection = Some(Existing("ChatGpt"))
    /\ show_login_form = FALSE /\ sign_in_state = "ChatGptSuccess"
    /\ Len(accounts) = 2 /\ highlighted = 1

\* C5: with n accounts there are n + 1 entries, and the effective highlight
\* is min(highlighted, n), within [0, n]: in every reachable state, and for
\* every stored index the state could hold, in range or not.
C5_EffectiveHighlightInRange ==
    /\ TotalEntries(self) = NumAccounts + 1
    /\ Eff = (IF highlighted <= NumAccounts THEN highlighted ELSE NumAccounts)
    /\ Eff \in 0..NumAccounts
    /\ \A h \in 0..(NumAccounts + 2) :
          LET e == CurrentHighlight([self EXCEPT !.highlighted = h])
          IN  /\ e = (IF h <= NumAccounts THEN h ELSE NumAccounts)
              /\ e \in 0..NumAccounts

\* A refresh has replaced a list with an account row by the empty list.
C5_Witness ==
    /\ lastOp = "Enter" /\ Len(calls) = 2 /\ calls[2].ok
    /\ accounts = <<>> /\ Eff = 0 /\ TotalEntries(self) = 1

\* highlight_next applied k times.
RECURSIVE NextTimes(_, _)
NextTimes(w, k) == IF k = 0 THEN w ELSE NextTimes(HighlightNext(w), k - 1)

\* C6: navigation is circular over the n + 1 entries: n + 1 times next()
\* returns to the effective highlight, next() then prev() and prev() then
\* next() are the identity on it, next() wraps from n to 0 and prev() from 0
\* to n (both staying at 0 when n = 0).
C6_NavigationCircular ==
    /\ CurrentHighlight(NextTimes(self, NumAccounts + 1)) = Eff
    /\ CurrentHighlight(HighlightPrev(HighlightNext(self))) = Eff
    /\ CurrentHighlight(HighlightNext(HighlightPrev(self))) = Eff
    /\ Eff = NumAccounts => CurrentHighlight(HighlightNext(self)) = 0
    /\ Eff = 0 => CurrentHighlight(HighlightPrev(self)) = NumAccounts
    /\ Eff < NumAccounts => CurrentHighlight(HighlightNext(self)) = Eff + 1
    /\ Eff > 0 => CurrentHighlight(HighlightPrev(self)) = Eff - 1

\* An Up from the first of three entries has wrapped to the synthetic one.
C6_Witness ==
    /\ lastOp = "Up" /\ NumAccounts = 2 /\ Eff = 2
    /\ CurrentHighlight(HighlightNext(self)) = 0

\* C7: once the step reports Complete it reports Complete after every
\* further step; no step sets selection back to None.
C7_CompletionMonotonic ==
    [][ GetStepState(self) = "Complete" =>
          GetStepState(self') = "Complete" /\ selection' # None ]_vars

\* A failed activation after a committed ChatGpt account: still Complete.
C7_Witness ==
    /\ lastOp = "Enter" /\ Len(calls) = 1 /\ ~calls[1].ok
    /\ selection = Some(Existing("ChatGpt"))
    /\ GetStepState(self) = "Complete"

\* C8: the step reports Complete exactly when selection is not None, and
\* while no Enter has committed (only navigation, ignored keys and failed
\* activations since construction) selection is None and the step InProgress.
C8_InProgressUntilCommit ==
    /\ GetStepState(self) = "Complete" <=> selection # None
    /\ GetStepState(self) \in {"Complete", "InProgress"}
    /\ ~committed => selection = None /\ GetStepState(self) = "InProgress"

\* A failed activation with nothing committed yet.
C8_Witness ==
    /\ ~committed /\ lastOp = "Enter" /\ Len(calls) = 1 /\ ~calls[1].ok
    /\ IsSome(error) /\ GetStepState(self) = "InProgress"

\* The widget was just built and list_accounts gave no accounts.
BuiltWithoutAccounts ==
    lastOp = "new" /\ (~calls[1].ok \/ accounts = <<>>)

\* C9 as stated: construction with an empty or failed listing leaves
\* accounts empty, the effective highlight 0, show-login-form true,
\* selection None (InProgress), and error the failure message or None.
C9_AsStated ==
    BuiltWithoutAccounts =>
        /\ accounts = <<>> /\ Eff = 0
        /\ show_login_form = TRUE
        /\ selection = None /\ GetStepState(self) = "InProgress"
        /\ calls[1].ok => error = None
        /\ ~calls[1].ok => error \in { Some(m) : m \in ListErrors }

\* C9 amended: as stated, with show-login-form true provided its write lock
\* could be acquired.
C9_EmptyConstruction ==
    BuiltWithoutAccounts =>
        /\ accounts = <<>> /\ Eff = 0
        /\ ~form_poisoned => show_login_form = TRUE
        /\ selection = None /\ GetStepState(self) = "InProgress"
        /\ calls[1].ok => error = None
        /\ ~calls[1].ok => error \in { Some(m) : m \in ListErrors }

\* Built over a failing directory: the error is kept and the form forced.
C9_Witness ==
    /\ lastOp = "new" /\ ~calls[1].ok /\ accounts = <<>>
    /\ error = Some("network unreachable")
    /\ ~form_poisoned /\ show_login_form = TRUE /\ selection = None

\* C10: every handled key is followed by at least one redraw request, and
\* a commit makes its own request besides the dispatcher's.
C10_RedrawRequested ==
    /\ lastOp \in Keys => frames >= 1
    /\ lastOp = "Enter" => frames >= 2

\* An ignored key asked for one redraw.
C10_Witness == lastOp = "Other" /\ frames = 1 /\ calls = <<>>

\* C11: error is the message of the most recent directory call (the
\* list_accounts of construction or of a refresh, or select_account) if that
\* call failed and the synthetic entry was not committed since, and None
\* otherwise; so a fully successful account commit and a synthetic-entry
\* commit clear it, and navigation and ignored keys leave it.
C11_ErrorIsLastFailure == error = lastCallError

\* A refresh failure is still shown after navigating away from the row.
C11_Witness ==
    /\ lastOp \in {"Down", "Char_k", "Other"}
    /\ committed /\ error = Some("network unreachable")
    /\ IsSome(selection) /\ selection # Some(AddNew)

\* The directory calls of one step, as C12 states them.
CallsOfStep ==
    /\ lastOp' \in Keys \ {"Enter"} => calls' = <<>>
    /\ EnterOnAddNew => calls' = <<>>
    /\ EnterOnAccount =>
          /\ Len(calls') \in {1, 2}
          /\ calls'[1].fn = "select_account"
          /\ calls'[1].arg = accounts[Eff + 1].id
          /\ calls'[1].ok => Len(calls') = 2 /\ calls'[2].fn = "list_accounts"
          /\ ~calls'[1].ok => Len(calls') = 1
          /\ (calls'[1].ok /\ calls'[2].ok) =>
                IsSome(lastListed') /\ accounts' = lastListed'[1]

\* C12: list_accounts is called once at construction and once after each
\* successful select_account, and never otherwise; select_account is called
\* once per Enter on an account row, with the id of the account at the
\* effective highlight, and never for other keys or the synthetic row; after
\* a successful activation and refresh accounts is the returned list.
C12_CallProtocol ==
    /\ lastOp = "new" /\ Len(calls) = 1 /\ calls[1].fn = "list_accounts"
    /\ [][CallsOfStep]_vars

\* The second of two accounts was activated and the refreshed list, a
\* different one, was taken over.
C12_Witness ==
    /\ lastOp = "Enter" /\ Len(calls) = 2
    /\ calls[1].arg = "a3" /\ calls[1].ok /\ calls[2].ok
    /\ lastListed = Some(accounts) /\ Len(accounts) = 1
    /\ accounts[1].id = "a1"

\* The step just taken was a successful activation with a successful refresh.
Refreshed ==
    Activated /\ Len(calls') = 2 /\ calls'[2].fn = "list_accounts" /\ calls'[2].ok

\* C13: after a successful activation and refresh, highlighted is the index
\* of the first account marked active in the new list if there is one (it
\* need not be the committed row), and otherwise the stored index of before,
\* clamped to [0, new n].
C13_RepositionAfterRefresh ==
    [][ Refreshed =>
          IF \E i \in 1..Len(accounts') : accounts'[i].is_active
          THEN /\ highlighted' \in 0..(Len(accounts') - 1)
               /\ accounts'[highlighted' + 1].is_active
               /\ \A j \in 1..highlighted' : ~accounts'[j].is_active
          ELSE highlighted' =
                  (IF highlighted <= Len(accounts') THEN highlighted
                   ELSE Len(accounts')) ]_vars

\* The first row was committed and the refresh marks only the second
\* account active: the highlight moved there.
C13_Witness ==
    /\ lastOp = "Enter" /\ Len(calls) = 2 /\ calls[1].ok /\ calls[2].ok
    /\ calls[1].arg = "a1" /\ Len(accounts) = 2
    /\ ~accounts[1].is_active /\ accounts[2].is_active /\ highlighted = 1

\* The widget as it is after one more key, with no directory call needed.
AfterKey(w, key) == HandleKeyEvent(w, key, Ok("unit"), Ok(<<>>))

\* C14: a freshly built widget highlights the first account marked active,
\* or entry 0 when none is active or the list is empty; with one active
\* account Down moves to the synthetic entry 1 and Up back to 0; with two
\* inactive accounts two Down presses land on the synthetic entry 2.
C14_InitialHighlight ==
    lastOp = "new" =>
        /\ IF \E i \in 1..NumAccounts : accounts[i].is_active
           THEN /\ Eff < NumAccounts
                /\ accounts[Eff + 1].is_active
                /\ \A j \in 1..Eff : ~accounts[j].is_active
           ELSE Eff = 0
        /\ (NumAccounts = 1 /\ accounts[1].is_active) =>
              /\ Eff = 0
              /\ CurrentHighlight(AfterKey(self, "Down")) = 1
              /\ CurrentHighlight(AfterKey(AfterKey(self, "Down"), "Up")) = 0
        /\ (NumAccounts = 2 /\ ~accounts[1].is_active /\ ~accounts[2].is_active) =>
              /\ Eff = 0
              /\ CurrentHighlight(AfterKey(AfterKey(self, "Down"), "Down")) = 2

\* Built over a list whose second account is the first active one.
C14_Witness ==
    /\ lastOp = "new" /\ NumAccounts = 2
    /\ ~accounts[1].is_active /\ accounts[2].is_active /\ Eff = 1

\* What a key that is not Enter leaves alone: every widget field but
\* highlighted, both cells, and the directory.
KeyFrame ==
    /\ accounts' = accounts /\ selection' = selection /\ error' = error
    /\ show_login_form' = show_login_form /\ sign_in_state' = sign_in_state
    /\ calls' = <<>>

\* C15: Up and 'k' perform prev(), Down and 'j' next(), Enter the commit,
\* any other key nothing; a navigation key changes only highlighted and an
\* ignored key no field at all, neither writes a cell or calls the directory.
C15_KeyDispatch ==
    [][ /\ lastOp' \in {"Up", "Char_k"} =>
              /\ highlighted' = (IF Eff = 0 THEN NumAccounts ELSE Eff - 1)
              /\ KeyFrame
        /\ lastOp' \in {"Down", "Char_j"} =>
              /\ highlighted' = (Eff + 1) % (NumAccounts + 1)
              /\ KeyFrame
        /\ lastOp' = "Other" => highlighted' = highlighted /\ KeyFrame
        /\ EnterOnAddNew => selection' = Some(AddNew)
        /\ EnterOnAccount =>
              Len(calls') >= 1 /\ calls'[1].fn = "select_account" ]_vars

\* 'j' moved the highlight from the first to the second of three entries
\* and left a committed selection and a shown error as they were.
C15_Witness ==
    /\ lastOp = "Char_j" /\ NumAccounts = 2 /\ Eff = 1
    /\ IsSome(selection) /\ IsSome(error) /\ calls = <<>>

\* The cells whose lock the widget holds just before event i of trace t.
Held(t, i) ==
    { c \in {"form", "state"} :
        \E j \in 1..(i - 1) :
            /\ t[j] = [ev |-> "acquire", on |-> c]
            /\ \A k \in (j + 1)..(i - 1) : t[k] # [ev |-> "release", on |-> c] }

\* Event i of t is an acquisition followed by at most one assignment to the
\* same cell and then, before anything else, by the release of that cell.
ScopedWrite(t, i) ==
    LET c == t[i].on
        rel == [ev |-> "release", on |-> c]
    IN  \/ i + 1 <= Len(t) /\ t[i + 1] = rel
        \/ /\ i + 2 <= Len(t)
           /\ t[i + 1] = [ev |-> "assign", on |-> c]
           /\ t[i + 2] = rel

DroppedWrite(c) == << [ev |-> "acquire", on |-> c], [ev |-> "release", on |-> c] >>

\* A construction over an empty list whose write of the form cell failed:
\* the cell was not assigned and the widget is built as usual.
C17_Construction ==
    (lastOp = "new" /\ accounts = <<>> /\ form_poisoned) =>
        /\ trace = << [ev |-> "call", on |-> "list_accounts"] >>
                       \o DroppedWrite("form")
        /\ selection = None /\ highlighted = 0
        /\ error = lastCallError

\* A commit (Enter on the synthetic entry, or a successful activation) with
\* a cell whose lock cannot be acquired: that cell keeps its value, the
\* other cell is written if its own lock can be acquired, selection and
\* error are updated, the refresh is attempted and both redraws requested.
C17_Commit ==
    /\ (lastOp' = "Enter" /\ form_poisoned) =>
            show_login_form' = show_login_form
    /\ (lastOp' = "Enter" /\ state_poisoned) =>
            sign_in_state' = sign_in_state
    /\ (EnterOnAddNew /\ (form_poisoned \/ state_poisoned)) =>
          /\ selection' = Some(AddNew) /\ error' = None
          /\ highlighted' = NumAccounts
          /\ ~form_poisoned => show_login_form' = TRUE
          /\ ~state_poisoned => sign_in_state' = "PickMode"
          /\ frames' = 2
    /\ (Activated /\ (form_poisoned \/ state_poisoned)) =>
          /\ selection' = Some(Existing(accounts[Eff + 1].kind))
          /\ ~form_poisoned => show_login_form' = FALSE
          /\ ~state_poisoned =>
                sign_in_state' = ExpectedSignIn(accounts[Eff + 1].kind)
          /\ Len(calls') = 2 /\ calls'[2].fn = "list_accounts"
          /\ error' = lastCallError'
          /\ calls'[2].ok => (error' = None /\ lastListed' = Some(accounts'))
          /\ frames' = 2

\* C17: a failed lock acquisition during construction or a commit drops
\* that one write (the cell keeps its value) and nothing else: selection and
\* error are updated, the other cell is written if its lock can be
\* acquired, the refresh is attempted and the redraw requested.
C17_BestEffortWrites == []C17_Construction /\ [][C17_Commit]_vars

\* A ChatGpt account was activated while the form cell's lock was poisoned:
\* the form cell still shows the login form, the sign-in state was written,
\* the list was refreshed and both redraws requested.
C17_Witness ==
    /\ lastOp = "Enter" /\ form_poisoned /\ ~state_poisoned
    /\ selection = Some(Existing("ChatGpt"))
    /\ show_login_form = TRUE /\ sign_in_state = "ChatGptSuccess"
    /\ Len(calls) = 2 /\ calls[2].ok /\ error = None /\ frames = 2
    /\ trace = << [ev |-> "call", on |-> "select_account"] >>
                   \o DroppedWrite("form")
                   \o << [ev |-> "acquire", on |-> "state"],
                         [ev |-> "assign", on |-> "state"],
                         [ev |-> "release", on |-> "state"],
                         [ev |-> "call", on |-> "list_accounts"] >>

\* The entry lines of a rendering: all but the two leading lines and, when
\* an error is shown, the two trailing ones.
EntryLines(ls, withError) ==
    SubSeq(ls, 3, Len(ls) - (IF withError THEN 2 ELSE 0))

\* The line starts with the indicator of the highlighted row.
Indicated(line) == line[1].text = "> "

\* What the claim says of the lines rendered for the current state.
LinesAsSpecified(ls) ==
    LET entries == EntryLines(ls, IsSome(error))
    IN  /\ Len(ls) = NumAccounts + (IF IsSome(error) THEN 5 ELSE 3)
        /\ ls[1] = << Span("Choose which account to use for this session:",
                           "plain") >>
        /\ ls[2] = << Span("", "plain") >>
        /\ Len(entries) = NumAccounts + 1
        /\ \A i \in 1..NumAccounts :
              /\ Len(entries[i]) = 4
              /\ entries[i][2].text \in
                    { accounts[i].label, accounts[i].label \o " (current)" }
        /\ entries[NumAccounts + 1][2].text = "Add another account"
        /\ IsSome(error) =>
              /\ ls[Len(ls) - 1] = << Span("", "plain") >>
              /\ ls[Len(ls)] = << Span(error[1], "red") >>
        /\ { i \in 1..Len(entries) : Indicated(entries[i]) } = {Eff + 1}
        /\ \A i \in 1..Len(entries) :
              ~Indicated(entries[i]) => entries[i][1].text = "  "

\* A rendering step: render_ref just ran over a non-empty area.
Rendered == lastOp' = "render" /\ painted' # None

\* C18: for every reachable state with n accounts the lines are the
\* instruction, a blank line, the n account entries in list order, the
\* "Add another account" entry, and a blank line with the error text
\* exactly when error is set (n + 3 lines, n + 5 with an error); exactly one
\* entry line carries the indicator, the one at the effective highlight; a
\* rendering paints exactly these lines and changes no state.
C18_LineRenderer ==
    /\ [] LinesAsSpecified(Lines(self))
    /\ [][ Rendered =>
              /\ painted' = Some(Lines(self))
              /\ self' = [self EXCEPT !.calls = <<>>, !.frames = 0,
                                      !.trace = <<>>]
              /\ UNCHANGED <<committed, lastCallError, lastListed>> ]_vars

\* Two accounts, the second highlighted, an error shown: seven lines were
\* painted.
C18_Witness ==
    /\ lastOp = "render" /\ IsSome(painted) /\ Len(painted[1]) = 7
    /\ NumAccounts = 2 /\ Eff = 1 /\ IsSome(error)
    /\ Indicated(painted[1][4]) /\ ~Indicated(painted[1][3])
    /\ ~Indicated(painted[1][5])

\* C19: in every reachable state (after construction, next, prev, either
\* commit branch, and a refresh, also one returning a shorter list) the
\* stored highlighted index is within 0..accounts.len(), so the clamp of
\* current_highlight returns it unchanged.
C19_StoredHighlightInRange ==
    /\ highlighted \in 0..NumAccounts
    /\ Eff = highlighted

\* An activation whose refresh returned a single account, none active: the
\* committed row was the second of two, and the index kept is the last
\* entry of the shorter list.
C19_Witness ==
    /\ lastOp = "Enter" /\ Len(calls) = 2 /\ calls[1].ok /\ calls[2].ok
    /\ NumAccounts = 1 /\ ~accounts[1].is_active
    /\ highlighted = 1

\* selection and the two cells say the same thing.
Agreement ==
    /\ selection = Some(AddNew) =>
          show_login_form = TRUE /\ sign_in_state = "PickMode"
    /\ \A kind \in Kinds :
          selection = Some(Existing(kind)) =>
              show_login_form = FALSE /\ sign_in_state = ExpectedSignIn(kind)

\* selection is set by a successful commit and by nothing else.
SelectionTracksCommit ==
    /\ EnterOnAddNew => selection' = Some(AddNew)
    /\ Activated => selection' = Some(Existing(accounts[Eff + 1].kind))
    /\ ~(EnterOnAddNew \/ Activated) => selection' = selection

\* C20: with no sibling writing the cells and every lock acquired,
\* selection = AddNew goes with show-login-form = true and PickMode,
\* selection = Existing(kind) with show-login-form = false and the kind's
\* sign-in state, in every state between key events, also after a failed
\* activation or a failed refresh; selection is that of the most recent
\* successful commit.
C20_SelectionCellsAgree == []Agreement /\ [][SelectionTracksCommit]_vars

\* A ChatGpt account is committed and a later activation has failed: the
\* error is shown, selection and cells still name the ChatGpt commit.
C20_Witness ==
    /\ lastOp = "Enter" /\ Len(calls) = 1 /\ ~calls[1].ok /\ IsSome(error)
    /\ selection = Some(Existing("ChatGpt"))
    /\ show_login_form = FALSE /\ sign_in_state = "ChatGptSuccess"
    /\ ~form_poisoned /\ ~state_poisoned

====
